---- MODULE Spec2Model ----
(***************************************************************************)
(* Model of the product detail page of ml-challenge-frontend.              *)
(*                                                                         *)
(* The page state coordinator is the App component (App.tsx): its useState *)
(* cells are the variables, its two effects and its handlers the actions.  *)
(* The event loop is single threaded: a handler, and the continuation of   *)
(* an await, runs to completion, together with the effects its state       *)
(* updates schedule.  Several detail batches (Promise.all of six fetches)  *)
(* can be in flight at once, because Effect 2 has no cleanup.              *)
(***************************************************************************)
EXTENDS Integers, Sequences, FiniteSets, TLC

----------------------------------------------------------------------------
(* Bounds of the model *)

MaxProductId == 3    \* the backend knows products with ids 1..MaxProductId
MaxBatches == 3      \* detail batches issued between two page loads
MaxVariants == 3     \* longest variant list of an offer (variant engine)
MaxPrice == 9        \* largest price and original price of a pricing entry
MaxItems == 2        \* longest array among the field values of a raw product
MaxQuestions == 2    \* questions submitted between two page loads

----------------------------------------------------------------------------
(* Values *)

\* `null` of a number-valued cell (currentProductId, selectedVariantId)
NullId == -1
\* `null` of an object-valued cell
Null == [null |-> TRUE]
\* reading an attribute a variant does not have
Undefined == "undefined"

Fetches == {"product", "offer", "questions", "reviews", "paymentMethods", "seller"}

Currencies == {"COP", "USD"}
Attributes == {"color", "ram"}
Values == {"A", "B"}

\* messages an Error thrown by the fetcher can carry
FetchErrorMessages ==
  {"Network error. Please check your internet connection and try again.",
   "Request failed with status 500"}

EmptyStoreError ==
  [prefix |-> "No products were found. The store might be empty.", detail |-> ""]
\* a handler that drops the caught error's message
ListError_Unknown(msg) ==
  [prefix |-> "Error loading the product list.", detail |-> "An unknown error occurred."]
ListError(msg) == [prefix |-> "Error loading the product list.", detail |-> msg]
DetailError(msg) == [prefix |-> "Could not load product information.", detail |-> msg]

\* the text of an error cell is `${prefix} ${detail}`; it is empty only if both are
NonEmptyMessage(e) == e # Null /\ (e.prefix # "" \/ e.detail # "")

----------------------------------------------------------------------------
(* JavaScript values as the API layer sees them.  A string is a sequence   *)
(* of symbols: a symbol is a punctuation character of JSON, or a whole     *)
(* word, number or literal.                                                *)

JNull == [t |-> "null"]
JUndefined == [t |-> "undefined"]
JBool(b) == [t |-> "bool", b |-> b]
JNum(n) == [t |-> "num", n |-> n]
JStr(symbols) == [t |-> "str", s |-> symbols]
JArr(items) == [t |-> "arr", items |-> items]
JObj(fields) == [t |-> "obj", fields |-> fields]

NoFields == [k \in {} |-> JNull]

Quote == "\""
Backslash == "\\"
\* the numerals of 0, 1, 2, ...; also the index keys of an array
Numerals == <<"0", "1", "2", "3", "4", "5">>
NumeralValue(sym) == (CHOOSE i \in 1..Len(Numerals) : Numerals[i] = sym) - 1
\* the order in which the members of an object are written
KeyOrder ==
  <<"id", "title", "images", "breadcrumbs", "benefits", "shipping", "pickup",
    "description", "specs", "path", "free", "timeline", "deadline",
    "moreOptionsUrl", "location", "mapUrl", "highlighted", "featureGroups",
    "data", "message">>

\* the order of the own keys of an object: integer keys ascending, then
\* the other keys as they were inserted (the model writes them in KeyOrder)
PropertyOrder == Numerals \o KeyOrder

\* `!v` is false
truthy(v) ==
  CASE v.t \in {"null", "undefined"} -> FALSE
    [] v.t = "bool" -> v.b
    [] v.t = "num" -> v.n # 0
    [] v.t = "str" -> v.s # <<>>
    [] OTHER -> TRUE

typeof(v) ==
  CASE v.t = "undefined" -> "undefined"
    [] v.t = "bool" -> "boolean"
    [] v.t = "num" -> "number"
    [] v.t = "str" -> "string"
    [] OTHER -> "object"

isArray(v) == v.t = "arr"

\* the own enumerable properties an object spread copies
ownProperties(v) ==
  CASE v.t = "obj" -> v.fields
    [] v.t = "arr" -> [k \in {Numerals[i] : i \in 1..Len(v.items)} |->
                         v.items[NumeralValue(k) + 1]]
    [] OTHER -> NoFields

\* v[key] of a value that is neither null nor undefined
Get(v, key) ==
  IF key \in DOMAIN ownProperties(v) THEN ownProperties(v)[key] ELSE JUndefined

\* JSON.stringify
RECURSIVE JSONstringify(_)
RECURSIVE stringifyItems(_)
RECURSIVE stringifyMembers(_, _, _)
RECURSIVE escape(_)
escape(symbols) ==
  IF symbols = <<>> THEN <<>>
  ELSE (IF Head(symbols) \in {Quote, Backslash} THEN <<Backslash, Head(symbols)>>
        ELSE <<Head(symbols)>>) \o escape(Tail(symbols))
stringifyItems(items) ==
  IF items = <<>> THEN <<>>
  ELSE JSONstringify(Head(items)) \o
       (IF Tail(items) = <<>> THEN <<>> ELSE <<",">> \o stringifyItems(Tail(items)))
stringifyMembers(fields, i, first) ==
  IF i > Len(PropertyOrder) THEN <<>>
  ELSE IF PropertyOrder[i] \in DOMAIN fields
       THEN (IF first THEN <<>> ELSE <<",">>) \o
            <<Quote, PropertyOrder[i], Quote, ":">> \o
            JSONstringify(fields[PropertyOrder[i]]) \o
            stringifyMembers(fields, i + 1, FALSE)
       ELSE stringifyMembers(fields, i + 1, first)
JSONstringify(v) ==
  CASE v.t = "null" -> <<"null">>
    [] v.t = "bool" -> <<IF v.b THEN "true" ELSE "false">>
    [] v.t = "num" -> <<Numerals[v.n + 1]>>
    [] v.t = "str" -> <<Quote>> \o escape(v.s) \o <<Quote>>
    [] v.t = "arr" -> <<"[">> \o stringifyItems(v.items) \o <<"]">>
    [] v.t = "obj" -> <<"{">> \o stringifyMembers(v.fields, 1, TRUE) \o <<"}">>

\* JSON.parse: a recursive descent over the symbols; ok is FALSE where
\* JSON.parse throws a SyntaxError
Parsed(v, rest) == [ok |-> TRUE, v |-> v, rest |-> rest]
SyntaxError == [ok |-> FALSE, v |-> JNull, rest |-> <<>>]

RECURSIVE parseValue(_)
RECURSIVE parseChars(_, _)
RECURSIVE parseElements(_, _)
RECURSIVE parseMembers(_, _)
RECURSIVE parseChars_NoEscape(_, _)

\* a string scanner that does not know the backslash
parseChars_NoEscape(text, acc) ==
  IF text = <<>> THEN SyntaxError
  ELSE IF Head(text) = Quote THEN Parsed(JStr(acc), Tail(text))
  ELSE parseChars_NoEscape(Tail(text), Append(acc, Head(text)))

\* the symbols of a string literal up to its closing quote
parseChars(text, acc) ==
  IF text = <<>> THEN SyntaxError
  ELSE IF Head(text) = Quote THEN Parsed(JStr(acc), Tail(text))
  ELSE IF Head(text) = Backslash
       THEN IF Len(text) >= 2 /\ text[2] \in {Quote, Backslash}
            THEN parseChars(Tail(Tail(text)), Append(acc, text[2]))
            ELSE SyntaxError
  ELSE parseChars(Tail(text), Append(acc, Head(text)))

\* the elements of an array after its opening bracket
parseElements(text, acc) ==
  LET e == parseValue(text)
  IN  IF ~e.ok \/ e.rest = <<>> THEN SyntaxError
      ELSE IF Head(e.rest) = "]" THEN Parsed(JArr(Append(acc, e.v)), Tail(e.rest))
      ELSE IF Head(e.rest) = "," THEN parseElements(Tail(e.rest), Append(acc, e.v))
      ELSE SyntaxError

\* the members of an object after its opening brace; a member name is one
\* symbol, and a repeated name keeps its last value
parseMembers(text, acc) ==
  IF text = <<>> \/ Head(text) # Quote THEN SyntaxError
  ELSE LET k == parseChars(Tail(text), <<>>)
       IN  IF ~k.ok \/ Len(k.v.s) # 1 \/ k.rest = <<>> \/ Head(k.rest) # ":"
           THEN SyntaxError
           ELSE LET e == parseValue(Tail(k.rest))
                    name == k.v.s[1]
                    more == [x \in (DOMAIN acc) \cup {name} |->
                               IF x = name THEN e.v ELSE acc[x]]
                IN  IF ~e.ok \/ e.rest = <<>> THEN SyntaxError
                    ELSE IF Head(e.rest) = "}" THEN Parsed(JObj(more), Tail(e.rest))
                    ELSE IF Head(e.rest) = "," THEN parseMembers(Tail(e.rest), more)
                    ELSE SyntaxError

parseValue(text) ==
  IF text = <<>> THEN SyntaxError
  ELSE LET h == Head(text)
           r == Tail(text)
       IN  CASE h = "null" -> Parsed(JNull, r)
             [] h = "true" -> Parsed(JBool(TRUE), r)
             [] h = "false" -> Parsed(JBool(FALSE), r)
             [] \E i \in 1..Len(Numerals) : Numerals[i] = h -> Parsed(JNum(NumeralValue(h)), r)
             [] h = Quote -> parseChars(r, <<>>)
             [] h = "[" -> IF r # <<>> /\ Head(r) = "]" THEN Parsed(JArr(<<>>), Tail(r))
                           ELSE parseElements(r, <<>>)
             [] h = "{" -> IF r # <<>> /\ Head(r) = "}" THEN Parsed(JObj(NoFields), Tail(r))
                           ELSE parseMembers(r, NoFields)
             [] OTHER -> SyntaxError

JSONparse(text) ==
  LET p == parseValue(text)
  IN  IF p.ok /\ p.rest = <<>> THEN p ELSE SyntaxError

----------------------------------------------------------------------------
(* lib/api.ts: the product list *)

\* api.ts 16-26
FallbackProduct ==
  JObj([id |-> JNum(0),
        title |-> JStr(<<"Invalid Product">>),
        images |-> JArr(<<>>),
        breadcrumbs |-> JObj([path |-> JArr(<<>>)]),
        benefits |-> JArr(<<>>),
        shipping |-> JObj([free |-> JBool(FALSE), timeline |-> JStr(<<>>),
                           deadline |-> JNull, moreOptionsUrl |-> JStr(<<"#">>)]),
        pickup |-> JObj([free |-> JBool(FALSE), timeline |-> JNull,
                         location |-> JNull, mapUrl |-> JNull]),
        description |-> JStr(<<>>),
        specs |-> JObj([highlighted |-> JArr(<<>>), featureGroups |-> JArr(<<>>)])])

\* the fields transformProduct parses
ParsedFields == {"images", "breadcrumbs", "benefits", "shipping", "pickup", "specs"}

\* a field parser that keeps a string JSON.parse rejects
parseJsonField_KeepUnparsed(field) ==
  IF typeof(field) = "string"
  THEN LET p == JSONparse(field.s) IN IF p.ok THEN p.v ELSE field
  ELSE field

\* api.ts 34-44
parseJsonField(field) ==
  IF typeof(field) = "string"
  THEN LET p == JSONparse(field.s) IN IF p.ok THEN p.v ELSE JNull
  ELSE field

\* a || b
orElse(a, b) == IF truthy(a) THEN a ELSE b

\* api.ts 13-58
transformProduct(product) ==
  IF ~truthy(product) \/ typeof(product) # "object"
  THEN FallbackProduct
  ELSE LET own == ownProperties(product)
           parsedImages == parseJsonField(Get(product, "images"))
       IN  JObj([k \in (DOMAIN own) \cup ParsedFields |->
                  CASE k = "images" ->
                         IF isArray(parsedImages) THEN parsedImages ELSE JArr(<<>>)
                    [] k = "breadcrumbs" ->
                         orElse(parseJsonField(Get(product, k)), JObj([path |-> JArr(<<>>)]))
                    [] k = "benefits" ->
                         orElse(parseJsonField(Get(product, k)), JArr(<<>>))
                    [] k = "shipping" ->
                         orElse(parseJsonField(Get(product, k)), JObj(NoFields))
                    [] k = "pickup" ->
                         orElse(parseJsonField(Get(product, k)), JObj(NoFields))
                    [] k = "specs" ->
                         orElse(parseJsonField(Get(product, k)),
                                JObj([highlighted |-> JArr(<<>>),
                                      featureGroups |-> JArr(<<>>)]))
                    [] OTHER -> own[k]])

\* product.id of a normalized product
idOf(product) == Get(product, "id").n

\* the backend's record of product n
RawProduct(n) == JObj([id |-> JNum(n), title |-> JStr(<<"Product">>)])

\* the records of a set of ids in ascending order, a null record (id 0) first
RECURSIVE RawListOf(_)
RawListOf(ids) ==
  IF ids = {} THEN <<>>
  ELSE LET m == CHOOSE x \in ids : \A y \in ids : y <= x
       IN  Append(RawListOf(ids \ {m}), IF m = 0 THEN JNull ELSE RawProduct(m))

\* payloads of GET /products that are arrays: the first n products of the
\* backend, with or without a null record in front
RawLists == {RawListOf(m..n) : m \in 0..1, n \in 0..MaxProductId}

\* Object.values of the properties from position i of PropertyOrder on
RECURSIVE valuesFrom(_, _)
valuesFrom(fields, i) ==
  IF i > Len(PropertyOrder) THEN <<>>
  ELSE (IF PropertyOrder[i] \in DOMAIN fields THEN <<fields[PropertyOrder[i]]>> ELSE <<>>)
       \o valuesFrom(fields, i + 1)

\* api.ts 118-129: the products of the payload of GET /products
productsOf(data) ==
  IF isArray(data)
  THEN [i \in 1..Len(data.items) |-> transformProduct(data.items[i])]
  ELSE IF truthy(data) /\ typeof(data) = "object" /\ ~isArray(data)
  THEN LET values == valuesFrom(ownProperties(data), 1)
       IN  [i \in 1..Len(values) |-> transformProduct(values[i])]
  ELSE <<>>

----------------------------------------------------------------------------
(* lib/api.ts: the fetcher.  A request is the environment of one call:     *)
(* whether API_BASE_URL is set, whether fetch resolved with a response or  *)
(* rejected with a TypeError, and the response's ok flag, status, status   *)
(* text and body text.  The outcome of a call is a resolved value or a     *)
(* rejection with an error.                                                *)

NoStatus == -1

\* the message of an Error: a fixed text, the text of line 78 with the
\* status and (after line 87) the status text, or the server's own message
Message(text) ==
  [text |-> text, status |-> NoStatus, statusText |-> "", server |-> JUndefined]
StatusMessage(status) ==
  [text |-> "Request failed with status", status |-> status, statusText |-> "",
   server |-> JUndefined]
ServerMessage(message) ==
  [text |-> "", status |-> NoStatus, statusText |-> "", server |-> message]

ApiError(name, message) == [name |-> name, message |-> message]
NoError == ApiError("", Message(""))

\* the outcome of a call that went through fetch (api.ts 75): fetches counts
\* the network requests the call issued
Resolved(v) == [resolved |-> TRUE, value |-> v, error |-> NoError, fetches |-> 1]
Rejected(err) == [resolved |-> FALSE, value |-> JUndefined, error |-> err, fetches |-> 1]

ConfigError ==
  ApiError("Error", Message("API_BASE_URL is not configured. Please define it in your environment or see run.md for local setup instructions."))
NetworkError ==
  ApiError("Error", Message("Network error. Please check your internet connection and try again."))

\* api.ts 78-88: the message of the error of a response that is not ok
errorMessage(response) ==
  LET errorInfo == JSONparse(response.body)
  IN  IF errorInfo.ok
      THEN IF truthy(errorInfo.v) /\ truthy(Get(errorInfo.v, "message"))
           THEN ServerMessage(Get(errorInfo.v, "message"))
           ELSE StatusMessage(response.status)
      ELSE [StatusMessage(response.status) EXCEPT !.statusText = response.statusText]

\* api.ts 94: result.data ?? result; reading a property of null throws
unwrapData(result) ==
  IF result.t \in {"null", "undefined"}
  THEN Rejected(ApiError("TypeError",
                         Message("Cannot read properties of null (reading 'data')")))
  ELSE LET data == Get(result, "data")
       IN  Resolved(IF data.t \in {"null", "undefined"} THEN result ELSE data)

\* api.ts 74-108: the try block, entered by calling fetch
fetchAndUnwrap(request) ==
  IF request.fetch # "response"
  THEN IF request.fetch = "Failed to fetch"
       THEN Rejected(NetworkError)
       ELSE Rejected(ApiError("TypeError", Message(request.fetch)))
  ELSE IF ~request.response.ok
  THEN Rejected(ApiError("Error", errorMessage(request.response)))
  ELSE LET result == JSONparse(request.response.body)
       IN  IF ~result.ok
           THEN Rejected(ApiError("SyntaxError", Message("Unexpected token in JSON")))
           ELSE unwrapData(result.v)

\* a fetcher without the check of lines 69-73
fetcher_Unchecked(request) == fetchAndUnwrap(request)

\* api.ts 68-109
fetcher(request) ==
  IF ~request.configured
  THEN [resolved |-> FALSE, value |-> JUndefined, error |-> ConfigError, fetches |-> 0]
  ELSE fetchAndUnwrap(request)

\* api.ts 115-130
getProducts(request) ==
  LET data == fetcher(request)
  IN  IF data.resolved THEN Resolved(productsOf(data.value)) ELSE data

\* api.ts 154-158
getQuestions(request) ==
  LET data == fetcher(request)
  IN  IF data.resolved
      THEN Resolved(IF isArray(data.value) THEN data.value ELSE JArr(<<>>))
      ELSE data

\* api.ts 137-140
getProduct(request) ==
  LET data == fetcher(request)
  IN  IF data.resolved THEN Resolved(transformProduct(data.value)) ELSE data

----------------------------------------------------------------------------
(* Offers and variants *)

\* `null` of a price field
NullPrice == -1

\* README.md 250-264: the pricing of a variant in one currency
Pricing(price, originalPrice, installments) ==
  [price |-> price, originalPrice |-> originalPrice, installments |-> installments]
Installments(months, amount) ==
  [months |-> months, amount |-> amount, interestFree |-> TRUE]

\* the catalog's prices: each currency has its own amounts
CatalogPricing(c) ==
  IF c = "USD" THEN Pricing(25, 30, Null) ELSE Pricing(100, 120, Installments(3, 34))

Variant(id, attrs, stock, curs) ==
  [id |-> id, attributes |-> attrs, stock |-> stock,
   pricing |-> [c \in curs |-> CatalogPricing(c)]]

\* JavaScript property read: v.attributes[key]
Lookup(attrs, key) == IF key \in DOMAIN attrs THEN attrs[key] ELSE Undefined

\* Array.prototype.find over the indices S of the elements that satisfy the
\* test: the first of them, 0 if there is none
FirstIndex(S) == IF S = {} THEN 0 ELSE CHOOSE i \in S : \A j \in S : i <= j


\* a candidate set that forgets the current variant's other attributes
newAttributes_ChangedOnly(attrs, attribute, value) == [k \in {attribute} |-> value]

\* App.tsx 159: { ...currentVariant.attributes, [attribute]: value }
newAttributes(attrs, attribute, value) ==
  [k \in (DOMAIN attrs) \cup {attribute} |-> IF k = attribute THEN value ELSE attrs[k]]

\* App.tsx 163: Object.keys(newAttributes).every(key => v.attributes[key] === newAttributes[key])
matchesEvery(v, na) == \A k \in DOMAIN na : Lookup(v.attributes, k) = na[k]

\* App.tsx 162-164: index of the variant found by the perfect match, 0 if none
perfectMatch(variants, na) ==
  FirstIndex({i \in 1..Len(variants) : matchesEvery(variants[i], na)})

\* a fallback that takes the last variant carrying the value, not the first
fallbackMatch_Last(variants, cur, attribute, value) ==
  LET S == {i \in 1..Len(variants) : Lookup(variants[i].attributes, attribute) = value}
  IN  IF S # {} THEN variants[CHOOSE i \in S : \A j \in S : j <= i] ELSE cur

\* a fallback that lands on the first variant of the list when none carries
\* the value
fallbackMatch_FirstVariant(variants, cur, attribute, value) ==
  LET f == FirstIndex({i \in 1..Len(variants) :
                          Lookup(variants[i].attributes, attribute) = value})
  IN  IF f # 0 THEN variants[f] ELSE variants[1]

\* App.tsx 169: variants.find(v => v.attributes[attribute] === value) || currentVariant
fallbackMatch(variants, cur, attribute, value) ==
  LET f == FirstIndex({i \in 1..Len(variants) :
                          Lookup(variants[i].attributes, attribute) = value})
  IN  IF f # 0 THEN variants[f] ELSE cur

\* App.tsx 155: index of the current variant, 0 if the id matches none
currentVariantIndex(variants, selId) ==
  FirstIndex({i \in 1..Len(variants) : variants[i].id = selId})

\* a handler without the return of line 156: it goes on to lines 172-173
resolveVariant_Unguarded(variants, selId, attribute, value) ==
  LET c == currentVariantIndex(variants, selId)
  IN  IF c = 0
      THEN [selected |-> TRUE, id |-> selId]
      ELSE LET cur == variants[c]
               na == newAttributes(cur.attributes, attribute, value)
               p == perfectMatch(variants, na)
           IN  [selected |-> TRUE,
                id |-> IF p # 0 THEN variants[p].id
                       ELSE fallbackMatch(variants, cur, attribute, value).id]

\* App.tsx 155-170: the variant the handler selects; selected is FALSE when
\* the handler returns at line 156 without selecting anything
resolveVariant(variants, selId, attribute, value) ==
  LET c == currentVariantIndex(variants, selId)
  IN  IF c = 0
      THEN [selected |-> FALSE, id |-> NullId]
      ELSE LET cur == variants[c]
               na == newAttributes(cur.attributes, attribute, value)
               p == perfectMatch(variants, na)
           IN  [selected |-> TRUE,
                id |-> IF p # 0 THEN variants[p].id
                       ELSE fallbackMatch(variants, cur, attribute, value).id]

----------------------------------------------------------------------------
(* The backend's records of a product; productId tells whose record it is *)

QA(id, answer) ==
  [id |-> id, question |-> <<"q", "?">>, answer |-> answer, isUserGenerated |-> FALSE]

\* the record the backend holds for product p: the first product carries no
\* specs, the others carry specs with an empty list of highlighted ones
BackendProduct(p) ==
  IF p = 1 THEN RawProduct(p)
  ELSE JObj([id |-> JNum(p), title |-> JStr(<<"Product">>),
             specs |-> JObj([highlighted |-> JArr(<<>>)])])
BackendQuestions(p) ==
  <<QA(10 * p + 1, JStr(<<"yes">>)), QA(10 * p + 2, JStr(<<"no">>))>>
BackendReviews(p) == [productId |-> p]
BackendPaymentMethods(p) == [productId |-> p]
BackendSeller(p) == [productId |-> p]

CatalogVariantLists ==
  { <<>>,
    <<Variant(101, [color |-> "A", ram |-> "8"], 3, {"COP", "USD"}),
      Variant(102, [color |-> "B", ram |-> "8"], 1, {"COP"})>>,
    <<Variant(102, [color |-> "B"], 0, {"COP", "USD"}),
      Variant(103, [color |-> "A", ram |-> "16"], 7, {"USD"})>> }

Offer(p, variants) ==
  [productId |-> p, variations |-> <<"color", "ram">>, variants |-> variants]
BackendOffers(p) == {Offer(p, l) : l \in CatalogVariantLists}

\* App.tsx 99: questions.sort((a, b) => b.id - a.id), a stable sort
RECURSIVE InsertDesc(_, _)
InsertDesc(q, s) ==
  IF s = <<>> THEN <<q>>
  ELSE IF s[1].id >= q.id THEN <<s[1]>> \o InsertDesc(q, Tail(s))
  ELSE <<q>> \o s
RECURSIVE SortDescById(_)
SortDescById(s) ==
  IF s = <<>> THEN <<>>
  ELSE InsertDesc(s[Len(s)], SortDescById(SubSeq(s, 1, Len(s) - 1)))

----------------------------------------------------------------------------
(* State of the App component *)

VARIABLES
  listPending,            \* api.getProducts() of Effect 1 is in flight
  products,
  currentProductId,
  currentProduct,
  currentOffer,
  currentQuestions,
  currentReviews,
  currentPaymentMethods,
  currentSeller,
  selectedVariantId,
  quantity,
  currency,
  loading,
  error,
  batches,                \* detail batches in flight, oldest first
  issued,                 \* number of batches issued since the page loaded
  last,                   \* the handler or continuation that ran last, with its inputs
  call,                   \* a function of the page applied on its own: name, input, result
  questionForm            \* the Questions component and the answer requests in flight

detail == <<currentProduct, currentOffer, currentQuestions, currentReviews,
            currentPaymentMethods, currentSeller>>
vars == <<listPending, products, currentProductId, currentProduct, currentOffer,
          currentQuestions, currentReviews, currentPaymentMethods, currentSeller,
          selectedVariantId, quantity, currency, loading, error, batches, issued,
          last, call, questionForm>>

\* the cells of the App component and of the components it renders
page == <<listPending, products, currentProductId, currentProduct, currentOffer,
          currentQuestions, currentReviews, currentPaymentMethods, currentSeller,
          selectedVariantId, quantity, currency, loading, error, batches, issued,
          last, questionForm>>

\* no function is being applied on its own
NoCall == [fn |-> "none"]

NoOp ==
  [op |-> "mount", id |-> NullId, nOk |-> 0, alone |-> TRUE, detail |-> "",
   attribute |-> "", value |-> "", prevVariantId |-> NullId, prevQuantity |-> 0,
   selected |-> FALSE, prevQuestions |-> <<>>, answer |-> JUndefined]

\* part_004 38-40: nothing typed is being asked, and no answer is awaited
NoQuestionForm == [isAsking |-> FALSE, instance |-> 0, submitted |-> 0, pending |-> {}]

\* App.tsx 25-45 and the synchronous part of Effect 1 (line 55)
Mounted ==
  /\ listPending = TRUE
  /\ products = <<>>
  /\ currentProductId = NullId
  /\ currentProduct = Null
  /\ currentOffer = Null
  /\ currentQuestions = <<>>
  /\ currentReviews = Null
  /\ currentPaymentMethods = Null
  /\ currentSeller = Null
  /\ selectedVariantId = NullId
  /\ quantity = 1
  /\ currency = "COP"
  /\ loading = TRUE
  /\ error = Null
  /\ batches = <<>>
  /\ issued = 0
  /\ last = NoOp
  /\ questionForm = NoQuestionForm

Init == Mounted /\ call = NoCall

Op(name) == [NoOp EXCEPT !.op = name]

\* the selection changed while these batches were in flight
MarkOverlapped(bs) == [i \in 1..Len(bs) |-> [bs[i] EXCEPT !.overlapped = TRUE]]

----------------------------------------------------------------------------
(* Effect 2: the detail batch of the selected product id *)

\* App.tsx 204
selectedVariantIndex ==
  IF currentOffer = Null THEN 0
  ELSE currentVariantIndex(currentOffer.variants, selectedVariantId)

\* App.tsx 207-248: none of the three early returns is taken
PageRendered ==
  /\ ~(loading /\ currentProduct = Null /\ error = Null)
  /\ error = Null
  /\ currentProduct # Null
  /\ currentOffer # Null
  /\ selectedVariantIndex # 0
  /\ currentSeller # Null

\* App.tsx 327-333: the page renders one Questions component
QuestionsMounted == PageRendered

\* App.tsx 82: if (!currentProductId) return;
effectSkips(id) == id = NullId \/ id = 0

\* setCurrentProductId(id) followed by the run of Effect 2 that React
\* schedules when, and only when, the id changed (App.tsx 81-86, 128), with
\* a new Promise.all over the six fetches of id (App.tsx 88-95)
SetCurrentProductId(id) ==
  /\ currentProductId' = id
  /\ IF id = currentProductId
     THEN UNCHANGED <<loading, error, batches, issued>>
     ELSE IF effectSkips(id)
     THEN /\ batches' = MarkOverlapped(batches)
          /\ UNCHANGED <<loading, error, issued>>
     ELSE /\ loading' = TRUE
          /\ error' = Null
          /\ batches' = Append(MarkOverlapped(batches),
                             [id |-> id, overlapped |-> batches # <<>>])
          /\ issued' = issued + 1

\* a join that does not wait for the last fetch
joinFulfilled_OneMissing(fulfilled) == fulfilled >= Cardinality(Fetches) - 1

\* Promise.all fulfils once all the fetches of the batch have fulfilled
joinFulfilled(fulfilled) == fulfilled = Cardinality(Fetches)

\* App.tsx 105-107: the default variant
defaultVariantId(offer, selId) ==
  IF Len(offer.variants) > 0 THEN offer.variants[1].id ELSE selId

\* App.tsx 97-109 and 123: the continuation of a fulfilled batch
BatchSuccess(b, offer) ==
  /\ currentProduct' = transformProduct(BackendProduct(b.id))
  /\ currentOffer' = offer
  /\ currentQuestions' = SortDescById(BackendQuestions(b.id))
  /\ currentReviews' = BackendReviews(b.id)
  /\ currentPaymentMethods' = BackendPaymentMethods(b.id)
  /\ currentSeller' = BackendSeller(b.id)
  /\ selectedVariantId' = defaultVariantId(offer, selectedVariantId)
  /\ quantity' = 1
  /\ loading' = FALSE
  /\ UNCHANGED error

\* App.tsx 111-124: the continuation of a rejected batch
BatchFailure(msg) ==
  /\ error' = DetailError(msg)
  /\ currentProduct' = Null
  /\ currentOffer' = Null
  /\ currentQuestions' = <<>>
  /\ currentReviews' = Null
  /\ currentPaymentMethods' = Null
  /\ currentSeller' = Null
  /\ loading' = FALSE
  /\ UNCHANGED <<selectedVariantId, quantity>>

\* Batch i settles after nOk of its fetches have fulfilled: with all of them
\* fulfilled Promise.all fulfils, otherwise the next fetch to settle rejected
\* with msg and Promise.all rejects at once, whatever the rest do afterwards.
\* Until then the pending batch shows nothing of the fetches it has received,
\* so that none, all but one and all of them fulfilled are the cases there are.
BatchSettled(i, nOk, msg) ==
  /\ i \in 1..Len(batches)
  /\ LET b == batches[i]
     IN  IF joinFulfilled(nOk)
         THEN /\ msg = ""
              /\ \E offer \in BackendOffers(b.id) : BatchSuccess(b, offer)
              /\ last' = [Op("batchSuccess") EXCEPT !.id = b.id, !.nOk = nOk,
                            !.alone = ~b.overlapped,
                            !.prevVariantId = selectedVariantId,
                            !.prevQuantity = quantity]
         ELSE /\ msg \in FetchErrorMessages
              /\ BatchFailure(msg)
              /\ last' = [Op("batchFailure") EXCEPT !.id = b.id, !.nOk = nOk,
                            !.alone = ~b.overlapped, !.detail = msg]
  /\ batches' = SubSeq(batches, 1, i - 1) \o SubSeq(batches, i + 1, Len(batches))
  /\ UNCHANGED <<listPending, products, currentProductId, currency, issued, call>>
  \* React drops the state of a component that is no longer rendered: the
  \* next one rendered starts from part_004 38-40, and the continuations of
  \* the old one still hold the old setIsAsking
  /\ questionForm' = IF QuestionsMounted /\ ~QuestionsMounted'
                     THEN [questionForm EXCEPT !.isAsking = FALSE, !.instance = @ + 1]
                     ELSE questionForm

----------------------------------------------------------------------------
(* Effect 1: the product list *)

\* App.tsx 56-65: getProducts resolved with the array payload data;
\* pick is the index Math.random chose
FetchProductListSuccess(data, pick) ==
  /\ listPending
  /\ LET productList == productsOf(JArr(data))
     IN  /\ products' = productList
         /\ IF Len(productList) > 0
            THEN /\ pick \in 1..Len(productList)
                 /\ SetCurrentProductId(idOf(productList[pick]))
                 /\ last' = [Op("listLoaded") EXCEPT !.id = idOf(productList[pick])]
            ELSE /\ pick = 0
                 /\ error' = EmptyStoreError
                 /\ loading' = FALSE
                 /\ last' = Op("listLoaded")
                 /\ UNCHANGED <<currentProductId, batches, issued>>
  /\ listPending' = FALSE
  /\ UNCHANGED <<detail, selectedVariantId, quantity, currency, call, questionForm>>

\* App.tsx 66-71: getProducts rejected with an Error carrying msg
FetchProductListFailure(msg) ==
  /\ listPending
  /\ error' = ListError(msg)
  /\ loading' = FALSE
  /\ listPending' = FALSE
  /\ last' = [Op("listFailed") EXCEPT !.detail = msg]
  /\ UNCHANGED <<products, currentProductId, detail, selectedVariantId, quantity,
                 currency, batches, issued, call, questionForm>>

----------------------------------------------------------------------------
(* What is rendered, and the handlers the rendered page offers *)

selectedVariant == currentOffer.variants[selectedVariantIndex]

\* JavaScript truthiness of a number-or-null field
truthyNumber(n) == n # NullPrice /\ n # 0

\* Math.round of the quotient n / d, d > 0: the nearest integer, a half going
\* up (towards plus infinity).  Over 0..40 the double arithmetic of line 77
\* gives the same integer as the exact quotient.
MathRound(n, d) == (2 * n + d) \div (2 * d)

\* ProductOfferInfo.tsx 76-77
discount(currentPricing) ==
  IF truthyNumber(currentPricing.originalPrice) /\ truthyNumber(currentPricing.price)
  THEN MathRound((currentPricing.originalPrice - currentPricing.price) * 100,
                 currentPricing.originalPrice)
  ELSE 0

\* ProductOfferInfo.tsx 56-65: the text of an amount in a currency
formatCurrency(value, currencyCode) ==
  [amount |-> value, currency |-> currencyCode,
   fractionDigits |-> IF currencyCode = "USD" THEN 2 ELSE 0,
   locale |-> IF currencyCode = "USD" THEN "en-US" ELSE "es-CO"]

\* the text of a bare number (React renders a number 0 left by `0 && ...`)
NumberText(n) == [amount |-> n, currency |-> "", fractionDigits |-> 0, locale |-> ""]

\* an offer box that shows the first currency the variant has a price in
pricingFor_AnyCurrency(variant, cur) ==
  IF cur \in DOMAIN variant.pricing THEN cur
  ELSE IF DOMAIN variant.pricing # {}
       THEN CHOOSE c \in DOMAIN variant.pricing : TRUE
       ELSE ""

\* ProductOfferInfo.tsx 68-73: the currency whose pricing the box shows, ""
\* when the box returns null
pricingFor(variant, cur) ==
  IF cur \in DOMAIN variant.pricing THEN cur ELSE ""

\* ProductOfferInfo.tsx 67-119: the price texts of the offer box, Null when
\* the component returns null
ProductOfferInfo(variant, cur) ==
  LET c == pricingFor(variant, cur)
  IN  IF variant = Null \/ c = ""
      THEN Null
      ELSE LET currentPricing == variant.pricing[c]
           IN  [originalPrice |->
                  IF truthyNumber(currentPricing.originalPrice)
                  THEN formatCurrency(currentPricing.originalPrice, cur)
                  ELSE IF currentPricing.originalPrice = 0 THEN NumberText(0)
                  ELSE Null,
                price |-> formatCurrency(currentPricing.price, cur),
                discount |-> discount(currentPricing),
                discountShown |-> discount(currentPricing) > 0,
                installments |->
                  IF currentPricing.installments # Null
                  THEN [months |-> currentPricing.installments.months,
                        amount |-> formatCurrency(currentPricing.installments.amount, cur),
                        interestFree |-> currentPricing.installments.interestFree]
                  ELSE Null]

\* ProductOfferInfo.tsx 68-70: the offer box renders nothing without pricing
OfferInfoRendered == PageRendered /\ currency \in DOMAIN selectedVariant.pricing

\* App.tsx 252
relatedProducts ==
  {idOf(products[i]) : i \in 1..Len(products)} \ {idOf(currentProduct)}

\* App.tsx 141-144; the loading overlay does not disable the links
handleSelectProduct(id) ==
  /\ PageRendered
  /\ id \in relatedProducts
  /\ (id # currentProductId /\ ~effectSkips(id)) => issued < MaxBatches
  /\ SetCurrentProductId(id)
  /\ last' = [Op("selectProduct") EXCEPT !.id = id]
  /\ UNCHANGED <<listPending, products, detail, selectedVariantId, quantity, currency,
                 call, questionForm>>

\* a variant change that leaves the quantity cell alone
quantityOnVariantChange_Kept(previous) == previous

\* App.tsx 173: setQuantity(1)
quantityOnVariantChange(previous) == 1

\* App.tsx 152-174
handleVariantChange(attribute, value) ==
  /\ IF currentProduct = Null \/ currentOffer = Null
     THEN /\ UNCHANGED <<selectedVariantId, quantity>>
          /\ last' = [Op("variantChange") EXCEPT !.attribute = attribute,
                        !.value = value, !.prevVariantId = selectedVariantId,
                        !.prevQuantity = quantity]
     ELSE LET r == resolveVariant(currentOffer.variants, selectedVariantId,
                                  attribute, value)
          IN  /\ selectedVariantId' = IF r.selected THEN r.id ELSE selectedVariantId
              /\ quantity' = IF r.selected THEN quantityOnVariantChange(quantity)
                           ELSE quantity
              /\ last' = [Op("variantChange") EXCEPT !.attribute = attribute,
                            !.value = value, !.prevVariantId = selectedVariantId,
                            !.prevQuantity = quantity, !.selected = r.selected]
  /\ UNCHANGED <<listPending, products, currentProductId, detail, currency,
                 loading, error, batches, issued, call, questionForm>>

\* ProductOfferInfo.tsx 122-146: one button per variation and per value the
\* variants carry for its attribute
VariantButtonClick(attribute, value) ==
  /\ OfferInfoRendered
  /\ \E i \in 1..Len(currentOffer.variations) : currentOffer.variations[i] = attribute
  /\ \E i \in 1..Len(currentOffer.variants) :
        Lookup(currentOffer.variants[i].attributes, attribute) = value
  /\ handleVariantChange(attribute, value)

\* QuantitySelector.tsx 53
maxDropdownItems == 6

\* a dropdown that lists as many quantities whatever the stock
offeredQuantities_AnyStock(stock) == 1..maxDropdownItems

\* QuantitySelector.tsx 80: one option per unit in stock, up to the cap
offeredQuantities(stock) ==
  1..(IF stock < maxDropdownItems THEN stock ELSE maxDropdownItems)

\* ProductPurchaseBox.tsx 66-70 and QuantitySelector.tsx 47-93
handleQuantitySelect(newQuantity) ==
  /\ PageRendered
  /\ selectedVariant.stock > 0
  /\ selectedVariant.stock # 1
  /\ newQuantity \in offeredQuantities(selectedVariant.stock)
  /\ quantity' = newQuantity
  /\ last' = Op("quantitySelect")
  /\ UNCHANGED <<listPending, products, currentProductId, detail, selectedVariantId,
                 currency, loading, error, batches, issued, call, questionForm>>

\* ProductOfferInfo.tsx 87-88
setCurrency(c) ==
  /\ OfferInfoRendered
  /\ currency' = c
  /\ last' = Op("setCurrency")
  /\ UNCHANGED <<listPending, products, currentProductId, detail, selectedVariantId,
                 quantity, loading, error, batches, issued, call, questionForm>>

----------------------------------------------------------------------------
(* The question list: the three handlers of App and the Questions component *)

\* App.tsx 180-182: the updater prev => [newQuestion, ...prev]
handleAddQuestion(prev, newQuestion) == <<newQuestion>> \o prev

\* an updater that gives the answer to every entry
answerOf_Every(q, questionId, answer) == answer

\* App.tsx 191: q.id === questionId ? { ...q, answer } : q
answerOf(q, questionId, answer) == IF q.id = questionId THEN answer ELSE q.answer

\* an updater that puts back the entry it does not find
handleUpdateQuestionAnswer_Restoring(prev, questionId, answer) ==
  IF \E i \in 1..Len(prev) : prev[i].id = questionId
  THEN [i \in 1..Len(prev) |-> [prev[i] EXCEPT !.answer = answerOf(prev[i], questionId, answer)]]
  ELSE <<[id |-> questionId, question |-> <<>>, answer |-> answer,
          isUserGenerated |-> TRUE]>> \o prev

\* App.tsx 189-193: the updater prev => prev.map(...)
handleUpdateQuestionAnswer(prev, questionId, answer) ==
  [i \in 1..Len(prev) |-> [prev[i] EXCEPT !.answer = answerOf(prev[i], questionId, answer)]]

\* App.tsx 199-201: the updater prev => prev.filter(q => q.id !== questionId)
RECURSIVE handleDeleteQuestion(_, _)
handleDeleteQuestion(prev, questionId) ==
  IF prev = <<>> THEN <<>>
  ELSE IF Head(prev).id # questionId
       THEN <<Head(prev)>> \o handleDeleteQuestion(Tail(prev), questionId)
       ELSE handleDeleteQuestion(Tail(prev), questionId)

\* part_004 56: Date.now() at a submission, given how many came before it
\* since the page loaded: each later than the one before, and all far above
\* the ids the backend gives its questions
DateNow(submitted) == 1000 + submitted + 1

TempIds == {DateNow(n) : n \in 0..(MaxQuestions - 1)}

\* part_004 99
ApologyText ==
  JStr(<<"Sorry, I was unable to process your question at this time. Please try again later.">>)

\* the texts the answer service responds with
AnswerTexts == {JStr(<<"Yes, it does.">>), JStr(<<"It depends.">>)}

\* what the user typed into the question field
TypedTexts == {<<>>, <<" ">>, <<"q", "?">>, <<" ", "q", "?", " ">>}

\* String.prototype.trim over the symbols typed
RECURSIVE trim(_)
trim(text) ==
  IF text # <<>> /\ Head(text) = " " THEN trim(Tail(text))
  ELSE IF text # <<>> /\ text[Len(text)] = " "
  THEN trim(SubSeq(text, 1, Len(text) - 1))
  ELSE text

\* part_004 71: product.specs.highlighted.map(...) raises a TypeError unless
\* highlighted is an array
specsSummaryThrows(product) ==
  LET specs == Get(product, "specs")
  IN  IF specs.t = "obj" \/ specs.t = "arr"
      THEN ~isArray(Get(specs, "highlighted"))
      ELSE TRUE

\* part_004 48-103 up to the await of line 85: the question is added with a
\* null answer; an error raised before the await is caught at once, so that
\* the apology and setIsAsking(false) land in the same render as the question
handleFormSubmit(text) ==
  /\ QuestionsMounted
  /\ trim(text) # <<>>
  /\ ~questionForm.isAsking
  /\ questionForm.submitted < MaxQuestions
  /\ LET tempId == DateNow(questionForm.submitted)
         newQ == [id |-> tempId, question |-> trim(text), answer |-> JNull,
                  isUserGenerated |-> TRUE]
         added == handleAddQuestion(currentQuestions, newQ)
     IN  /\ IF specsSummaryThrows(currentProduct)
            THEN /\ currentQuestions' = handleUpdateQuestionAnswer(added, tempId, ApologyText)
                 /\ questionForm' = [questionForm EXCEPT !.submitted = @ + 1]
            ELSE /\ currentQuestions' = added
                 /\ questionForm' =
                      [questionForm EXCEPT
                         !.isAsking = TRUE, !.submitted = @ + 1,
                         !.pending = @ \cup {[id |-> tempId,
                                              instance |-> questionForm.instance]}]
         /\ last' = [Op("formSubmit") EXCEPT !.id = tempId,
                       !.prevQuestions = currentQuestions]
  /\ UNCHANGED <<listPending, products, currentProductId, currentProduct, currentOffer,
                 currentReviews, currentPaymentMethods, currentSeller,
                 selectedVariantId, quantity, currency, loading, error, batches,
                 issued, call>>

\* part_004 85-102: the request of the question asked under tempId settles,
\* with the text of the response or with an error; the finally block reaches
\* the component that asked, which may not be the one rendered now
AnswerSettled(request, answer) ==
  /\ request \in questionForm.pending
  /\ answer \in AnswerTexts \cup {ApologyText}
  /\ currentQuestions' = handleUpdateQuestionAnswer(currentQuestions, request.id, answer)
  /\ questionForm' =
       [questionForm EXCEPT
          !.pending = @ \ {request},
          !.isAsking = IF request.instance = questionForm.instance THEN FALSE ELSE @]
  /\ last' = [Op("answerSettled") EXCEPT !.id = request.id, !.answer = answer,
                !.prevQuestions = currentQuestions]
  /\ UNCHANGED <<listPending, products, currentProductId, currentProduct, currentOffer,
                 currentReviews, currentPaymentMethods, currentSeller,
                 selectedVariantId, quantity, currency, loading, error, batches,
                 issued, call>>

\* part_004 160-167: the delete button of a question the user asked
DeleteButtonClick(questionId) ==
  /\ QuestionsMounted
  /\ \E i \in 1..Len(currentQuestions) :
        currentQuestions[i].id = questionId /\ currentQuestions[i].isUserGenerated
  /\ currentQuestions' = handleDeleteQuestion(currentQuestions, questionId)
  /\ last' = [Op("deleteQuestion") EXCEPT !.id = questionId,
                !.prevQuestions = currentQuestions]
  /\ UNCHANGED <<listPending, products, currentProductId, currentProduct, currentOffer,
                 currentReviews, currentPaymentMethods, currentSeller,
                 selectedVariantId, quantity, currency, loading, error, batches,
                 issued, call, questionForm>>

\* App.tsx 222-237: the error screen's Refresh Page button reloads the page
Reload ==
  /\ error # Null
  /\ listPending' = TRUE
  /\ products' = <<>>
  /\ currentProductId' = NullId
  /\ currentProduct' = Null
  /\ currentOffer' = Null
  /\ currentQuestions' = <<>>
  /\ currentReviews' = Null
  /\ currentPaymentMethods' = Null
  /\ currentSeller' = Null
  /\ selectedVariantId' = NullId
  /\ quantity' = 1
  /\ currency' = "COP"
  /\ loading' = TRUE
  /\ error' = Null
  /\ batches' = <<>>
  /\ issued' = 0
  /\ last' = NoOp
  /\ questionForm' = NoQuestionForm
  /\ UNCHANGED call

Next ==
  \/ \E data \in RawLists, pick \in 0..(MaxProductId + 1) : FetchProductListSuccess(data, pick)
  \/ \E msg \in FetchErrorMessages : FetchProductListFailure(msg)
  \/ \E i \in 1..MaxBatches, nOk \in {0, Cardinality(Fetches) - 1, Cardinality(Fetches)},
        msg \in FetchErrorMessages \cup {""} : BatchSettled(i, nOk, msg)
  \/ \E id \in 0..MaxProductId : handleSelectProduct(id)
  \/ \E a \in Attributes, v \in Values \cup {Undefined} : VariantButtonClick(a, v)
  \/ \E q \in 1..maxDropdownItems : handleQuantitySelect(q)
  \/ \E c \in Currencies : setCurrency(c)
  \/ Reload

Spec == Init /\ [][Next]_vars

----------------------------------------------------------------------------
(* The page with its question list: the products come and go as in Spec,   *)
(* the user asks, deletes and is answered, and the variant, the quantity   *)
(* and the currency stay as each product's batch left them.                *)

PendingRequests ==
  {[id |-> id, instance |-> instance] : id \in TempIds, instance \in 0..MaxBatches}

\* the backend lists a null record and the products 1 and 2, and a batch
\* that fails does so at its last fetch, with a status 500
NextQuestions ==
  \/ \E pick \in 1..3 : FetchProductListSuccess(RawListOf(0..2), pick)
  \/ \E msg \in FetchErrorMessages : FetchProductListFailure(msg)
  \/ \E i \in 1..MaxBatches, nOk \in {Cardinality(Fetches) - 1, Cardinality(Fetches)},
        msg \in {"Request failed with status 500", ""} : BatchSettled(i, nOk, msg)
  \/ \E id \in 0..MaxProductId : handleSelectProduct(id)
  \/ \E text \in TypedTexts : handleFormSubmit(text)
  \/ \E request \in PendingRequests, answer \in AnswerTexts \cup {ApologyText} :
        AnswerSettled(request, answer)
  \/ \E id \in TempIds : DeleteButtonClick(id)
  \/ Reload

SpecQuestions == Init /\ [][NextQuestions]_vars

\* part_004 85: the awaited request of a question settles in the end, with a
\* response or with an error
SpecQuestionsFair ==
  /\ SpecQuestions
  /\ \A request \in PendingRequests :
        WF_vars(\E answer \in AnswerTexts \cup {ApologyText} : AnswerSettled(request, answer))


----------------------------------------------------------------------------
(* The variant engine on its own: handleVariantChange as a function of the *)
(* cells it reads, over every offer of up to MaxVariants variants whose    *)
(* attribute maps are drawn from Attributes and Values (a variant may lack *)
(* an attribute: the backend's offers are stored as received), and over    *)
(* every value of selectedVariantId, including ids that match no variant.  *)

EngineVariantLists ==
  UNION {[1..n -> UNION {[S -> Values] : S \in SUBSET Attributes}] : n \in 0..MaxVariants}
EngineOffer(maps) ==
  Offer(1, [i \in 1..Len(maps) |-> Variant(100 + i, maps[i], 2, Currencies)])

InitVariant ==
  /\ listPending = FALSE
  /\ products = productsOf(JArr(RawListOf(1..1)))
  /\ currentProductId = 1
  /\ currentProduct = transformProduct(RawProduct(1))
  /\ currentOffer \in {EngineOffer(maps) : maps \in EngineVariantLists}
  /\ currentQuestions = SortDescById(BackendQuestions(1))
  /\ currentReviews = BackendReviews(1)
  /\ currentPaymentMethods = BackendPaymentMethods(1)
  /\ currentSeller = BackendSeller(1)
  /\ selectedVariantId \in {NullId} \cup {100 + i : i \in 1..(MaxVariants + 1)}
  /\ quantity \in 1..2
  /\ currency = "COP"
  /\ loading = FALSE
  /\ error = Null
  /\ batches = <<>>
  /\ issued = 1
  /\ last = NoOp
  /\ call = NoCall
  /\ questionForm = NoQuestionForm

NextVariant == \E a \in Attributes, v \in Values : handleVariantChange(a, v)

SpecVariant == InitVariant /\ [][NextVariant]_vars


----------------------------------------------------------------------------
(* The offer box on its own: ProductOfferInfo as a function of its props   *)
(* selectedVariant and currency, over every pricing map whose entries hold *)
(* a price and an original price in 0..MaxPrice or null, with or without   *)
(* installments.                                                           *)

PricingMaps ==
  UNION {[S -> {Pricing(p, o, i) : p \in {NullPrice} \cup 0..MaxPrice,
                                   o \in {NullPrice} \cup 0..MaxPrice,
                                   i \in {Null, Installments(3, 1)}}] :
         S \in SUBSET Currencies}

InitPricing ==
  /\ Mounted
  /\ call \in {[fn |-> "ProductOfferInfo", variant |-> [Variant(101, [color |-> "A"], 2, {}) EXCEPT !.pricing = m],
                 currency |-> c,
                 done |-> FALSE, result |-> Null] : m \in PricingMaps, c \in Currencies}

\* the component renders with the props it was given
RenderOfferInfo ==
  /\ ~call.done
  /\ call' = [call EXCEPT !.done = TRUE,
                          !.result = ProductOfferInfo(call.variant, call.currency)]
  /\ UNCHANGED page

\* ProductOfferInfo.tsx 87-88: a currency button of the rendered box is
\* clicked and the box renders again with the new currency
RenderAfterSetCurrency(c) ==
  /\ call.done
  /\ call.result # Null
  /\ c # call.currency
  /\ call' = [call EXCEPT !.currency = c,
                          !.result = ProductOfferInfo(call.variant, c)]
  /\ UNCHANGED page

NextPricing ==
  \/ RenderOfferInfo
  \/ \E c \in Currencies : RenderAfterSetCurrency(c)

SpecPricing == InitPricing /\ [][NextPricing]_vars

----------------------------------------------------------------------------
(* The normalizer on its own: transformProduct applied to a raw value, and *)
(* again to its own result.  The raw values are the non-objects and the    *)
(* records of product 1 in which one of the parsed fields holds a          *)
(* structured value, the JSON text of one, the JSON text of that text, a   *)
(* text that is not JSON, the JSON text of a scalar, a scalar, or nothing. *)

Leaves == {JStr(<<"a">>), JStr(<<Quote, Backslash>>), JNum(1), JNull}
ArrayValues == {JArr(items) : items \in UNION {[1..n -> Leaves] : n \in 0..MaxItems}}
StructuredValues ==
  ArrayValues \cup
  {JObj(f) : f \in UNION {[S -> Leaves \cup {JArr(<<>>), JArr(<<JStr(<<"a">>)>>)}] :
                            S \in SUBSET {"path", "free"}}}

JSONText(v) == JStr(JSONstringify(v))

InvalidTexts ==
  {JStr(<<>>), JStr(<<"invalid json">>), JStr(<<"{", Quote, "path">>),
   JStr(<<"[", "]", "]">>)}
FieldValues ==
  StructuredValues \cup {JSONText(v) : v \in StructuredValues}
    \cup {JSONText(JSONText(v)) : v \in StructuredValues}
    \cup InvalidTexts
    \cup {JSONText(v) : v \in {JNull, JNum(0), JNum(1), JBool(TRUE), JBool(FALSE),
                               JStr(<<>>), JStr(<<"x">>)}}
    \cup {JUndefined, JNull, JNum(0), JNum(1), JBool(TRUE)}

\* the record of product 1 whose field holds v; no field when v is undefined
RawRecord(field, v) ==
  IF v = JUndefined THEN RawProduct(1)
  ELSE JObj([k \in {"id", "title", field} |->
               IF k = field THEN v ELSE RawProduct(1).fields[k]])

NormalizerCall(raw, field, v) ==
  [fn |-> "transformProduct", raw |-> raw, field |-> field, value |-> v,
   stage |-> 0, once |-> JUndefined, twice |-> JUndefined]

InitNormalize ==
  /\ Mounted
  /\ call \in {NormalizerCall(raw, "", raw) :
                 raw \in {JNull, JUndefined, JNum(0), JNum(1), JStr(<<>>), JStr(<<"x">>),
                          JBool(TRUE), JBool(FALSE), JArr(<<>>), JArr(<<JNum(1)>>)}}
          \cup {NormalizerCall(RawRecord(f, v), f, v) : f \in ParsedFields, v \in FieldValues}

\* transformProduct(raw)
Normalize ==
  /\ call.stage = 0
  /\ call' = [call EXCEPT !.stage = 1, !.once = transformProduct(call.raw)]
  /\ UNCHANGED page

\* transformProduct(transformProduct(raw))
NormalizeAgain ==
  /\ call.stage = 1
  /\ call' = [call EXCEPT !.stage = 2, !.twice = transformProduct(call.once)]
  /\ UNCHANGED page

NextNormalize == Normalize \/ NormalizeAgain

SpecNormalize == InitNormalize /\ [][NextNormalize]_vars

----------------------------------------------------------------------------
(* The fetcher on its own: one call of fetcher, then getProduct over the   *)
(* same request.  The bodies are the JSON texts of wrapped and bare        *)
(* payloads, of envelopes around null and falsy data, of error bodies with *)
(* and without a message, of null and scalars, and texts that are not JSON.*)

SentBodies ==
  {RawProduct(1), JArr(<<RawProduct(1)>>), JArr(<<>>), JObj(NoFields),
   JObj([data |-> RawProduct(1)]), JObj([data |-> JArr(<<RawProduct(1)>>)]),
   JObj([data |-> JNull]), JObj([data |-> JNum(0)]), JObj([data |-> JStr(<<>>)]),
   JObj([data |-> JBool(FALSE)]),
   JObj([message |-> JStr(<<"Product not found">>)]),
   JObj([message |-> JStr(<<>>)]), JObj([message |-> JNull]),
   JObj([data |-> JNull, message |-> JStr(<<"Product not found">>)]),
   JNull, JNum(0), JNum(1), JBool(TRUE), JStr(<<>>), JStr(<<"invalid data">>),
   JArr(<<RawProduct(1), RawProduct(2)>>), JArr(<<JNull, RawProduct(1)>>),
   JObj([data |-> JArr(<<RawProduct(2), RawProduct(1)>>)]),
   JObj([data |-> JArr(<<>>)]), JObj([data |-> JStr(<<"invalid data">>)]),
   JObj([data |-> JNum(1)])}

\* a response whose body is the JSON text of the value the server sent
JsonResponse(ok, status, statusText, sent) ==
  [ok |-> ok, status |-> status, statusText |-> statusText,
   body |-> JSONstringify(sent), sent |-> sent, entries |-> <<>>]
\* a response whose body is not JSON
TextResponse(ok, status, statusText, text) ==
  [ok |-> ok, status |-> status, statusText |-> statusText,
   body |-> text, sent |-> JUndefined, entries |-> <<>>]

\* the payloads that are mappings of id to record: their entries, key and
\* record, in the order in which the backend writes them
KeyedPayloads ==
  {<<<<"1", RawProduct(1)>>>>,
   <<<<"1", RawProduct(1)>>, <<"2", RawProduct(2)>>>>,
   <<<<"2", RawProduct(2)>>, <<"1", RawProduct(1)>>>>,
   <<<<"3", RawProduct(3)>>, <<"1", JNull>>, <<"2", RawProduct(2)>>>>}

\* the JSON text of a keyed payload
RECURSIVE keyedMembers(_)
keyedMembers(entries) ==
  IF entries = <<>> THEN <<>>
  ELSE <<Quote, Head(entries)[1], Quote, ":">> \o JSONstringify(Head(entries)[2]) \o
       (IF Tail(entries) = <<>> THEN <<>> ELSE <<",">> \o keyedMembers(Tail(entries)))
KeyedText(entries) == <<"{">> \o keyedMembers(entries) \o <<"}">>

\* the mapping a keyed payload denotes
KeyedValue(entries) ==
  JObj([k \in {entries[i][1] : i \in 1..Len(entries)} |->
          entries[CHOOSE i \in 1..Len(entries) : entries[i][1] = k][2]])

\* a successful response whose body is a keyed payload, bare or in an envelope
KeyedResponse(wrapped, entries) ==
  [ok |-> TRUE, status |-> 200, statusText |-> "OK",
   body |-> IF wrapped
            THEN <<"{", Quote, "data", Quote, ":">> \o KeyedText(entries) \o <<"}">>
            ELSE KeyedText(entries),
   sent |-> IF wrapped THEN JObj([data |-> KeyedValue(entries)]) ELSE KeyedValue(entries),
   entries |-> entries]

Statuses ==
  {<<TRUE, 200, "OK">>, <<FALSE, 404, "Not Found">>,
   <<FALSE, 500, "Internal Server Error">>}
Responses ==
  {JsonResponse(st[1], st[2], st[3], sent) : st \in Statuses, sent \in SentBodies}
    \cup {TextResponse(st[1], st[2], st[3], text) :
            st \in Statuses, text \in {<<>>, <<"<html>">>, <<"{", Quote, "data">>}}
    \cup {KeyedResponse(w, entries) : w \in BOOLEAN, entries \in KeyedPayloads}

NoResponse == TextResponse(FALSE, 0, "", <<>>)
Requests ==
  {[configured |-> TRUE, fetch |-> "response", response |-> r] : r \in Responses}
    \cup {[configured |-> TRUE, fetch |-> f, response |-> NoResponse] :
            f \in {"Failed to fetch", "Load failed"}}
    \cup {[configured |-> FALSE, fetch |-> f, response |-> r] :
            f \in {"response", "Failed to fetch"},
            r \in {NoResponse, JsonResponse(TRUE, 200, "OK", RawProduct(1))}}

InitFetch ==
  /\ Mounted
  /\ call \in {[fn |-> "fetcher", request |-> rq, stage |-> 0,
                 fetched |-> Rejected(NoError), product |-> Rejected(NoError),
                 products |-> Rejected(NoError), questions |-> Rejected(NoError)] :
                rq \in Requests}

\* fetcher(endpoint) settles
Fetch ==
  /\ call.stage = 0
  /\ call' = [call EXCEPT !.stage = 1, !.fetched = fetcher(call.request)]
  /\ UNCHANGED page

\* getProduct(id) settles over the same request
GetProduct ==
  /\ call.stage = 1
  /\ call' = [call EXCEPT !.stage = 2, !.product = getProduct(call.request)]
  /\ UNCHANGED page

\* getProducts() settles over the same request
GetProducts ==
  /\ call.stage = 2
  /\ call' = [call EXCEPT !.stage = 3, !.products = getProducts(call.request)]
  /\ UNCHANGED page

\* getQuestions(id) settles over the same request
GetQuestions ==
  /\ call.stage = 3
  /\ call' = [call EXCEPT !.stage = 4, !.questions = getQuestions(call.request)]
  /\ UNCHANGED page

NextFetch == Fetch \/ GetProduct \/ GetProducts \/ GetQuestions

SpecFetch == InitFetch /\ [][NextFetch]_vars

----------------------------------------------------------------------------
(* Properties of the coordinator (Spec) *)

\* the six stored detail records are those of product p
StoredFor(p) ==
  /\ currentProduct # Null /\ idOf(currentProduct) = p
  /\ currentOffer # Null /\ currentOffer.productId = p
  /\ currentQuestions = SortDescById(BackendQuestions(p))
  /\ currentReviews = BackendReviews(p)
  /\ currentPaymentMethods = BackendPaymentMethods(p)
  /\ currentSeller = BackendSeller(p)

DetailCleared ==
  /\ currentProduct = Null /\ currentOffer = Null /\ currentQuestions = <<>>
  /\ currentReviews = Null /\ currentPaymentMethods = Null /\ currentSeller = Null

InFlightFor(p) == \E i \in 1..Len(batches) : batches[i].id = p

\* C1: when the batch of a product other than the selected one succeeds after
\* the batch of the selected product has completed and stored its records,
\* the stored product, offer, questions, reviews, payment methods, seller and
\* the selected variant stay as they are.
C1_StaleSuccessDiscarded ==
  [][(/\ last'.op = "batchSuccess"
      /\ last'.id # currentProductId
      /\ StoredFor(currentProductId)
      /\ ~InFlightFor(currentProductId))
     => UNCHANGED <<detail, selectedVariantId>>]_vars

\* C2: when the batch of a product other than the selected one fails while the
\* selected product's batch is in flight or has stored its records, the
\* failure sets no error and clears no detail record.
C2_StaleFailureDiscarded ==
  [][(/\ last'.op = "batchFailure"
      /\ last'.id # currentProductId
      /\ (InFlightFor(currentProductId) \/ StoredFor(currentProductId)))
     => UNCHANGED <<error, detail>>]_vars

\* C3: a batch that no other selection overlapped stores its records only
\* with all six fetches fulfilled, and then without error; when one of the
\* six fails, the error cell holds a non-empty message, loading has ended and
\* all six detail records are cleared.
C3_JoinAllOrNothing ==
  /\ (last.op = "batchSuccess" /\ last.alone) =>
        /\ last.nOk = Cardinality(Fetches)
        /\ StoredFor(last.id)
        /\ error = Null
        /\ ~loading
  /\ (last.op = "batchFailure" /\ last.alone) =>
        /\ NonEmptyMessage(error)
        /\ error.detail = last.detail
        /\ DetailCleared
        /\ ~loading

\* a non-overlapped batch has failed after five of its fetches had fulfilled
C3_Witness ==
  /\ last.op = "batchFailure" /\ last.alone /\ last.nOk = Cardinality(Fetches) - 1
  /\ DetailCleared /\ error # Null

\* C4: after a batch succeeded for an offer with at least one variant the page
\* is Ready (rendered, no error, not loading), the selected variant is the
\* first of the stored offer's list and the quantity is 1.
C4_ReadyWithDefaultVariant ==
  (last.op = "batchSuccess" /\ Len(currentOffer.variants) > 0) =>
     /\ PageRendered
     /\ ~loading
     /\ selectedVariantId = currentOffer.variants[1].id
     /\ quantity = 1

\* C5: after the product list loaded with at least one entry, the selected id
\* is the id of a listed product, the page is loading and a batch for that id
\* is in flight.
C5_ListLoadIssuesBatch ==
  (last.op = "listLoaded" /\ Len(products) > 0) =>
     /\ \E i \in 1..Len(products) : idOf(products[i]) = currentProductId
     /\ loading
     /\ InFlightFor(currentProductId)

\* C6: once the product list has loaded empty or its fetch has failed, the
\* error cell holds a non-empty message (the empty-store notice, or a message
\* carrying the fetch error's message), loading has ended, and no detail batch
\* is in flight or was ever issued.
C6_ListFailureIsError ==
  (~listPending /\ products = <<>>) =>
     /\ NonEmptyMessage(error)
     /\ last.op = "listLoaded" => error = EmptyStoreError
     /\ last.op = "listFailed" =>
           /\ last.detail \in FetchErrorMessages
           /\ error.detail = last.detail
     /\ last.op \in {"listLoaded", "listFailed"}
     /\ ~loading
     /\ currentProductId = NullId
     /\ batches = <<>>
     /\ issued = 0

\* the list fetch has failed
C6_Witness ==
  ~listPending /\ products = <<>> /\ last.op = "listFailed" /\ error # Null

----------------------------------------------------------------------------
(* Properties of the variant engine (SpecVariant) *)

VariantChangeRan == last.op = "variantChange"

\* the variant that was current when the request was made, if any
HadCurrent ==
  \E i \in 1..Len(currentOffer.variants) :
     currentOffer.variants[i].id = last.prevVariantId
PrevVariant ==
  currentOffer.variants[CHOOSE i \in 1..Len(currentOffer.variants) :
     /\ currentOffer.variants[i].id = last.prevVariantId
     /\ \A j \in 1..(i - 1) : currentOffer.variants[j].id # last.prevVariantId]

\* the candidate attribute set of the request
Candidate ==
  [k \in (DOMAIN PrevVariant.attributes) \cup {last.attribute} |->
     IF k = last.attribute THEN last.value ELSE PrevVariant.attributes[k]]

\* variant i carries the candidate's value for every attribute of the candidate
Agrees(i) ==
  \A k \in DOMAIN Candidate :
     /\ k \in DOMAIN currentOffer.variants[i].attributes
     /\ currentOffer.variants[i].attributes[k] = Candidate[k]

\* variant i carries the new value for the changed attribute
CarriesNewValue(i) ==
  /\ last.attribute \in DOMAIN currentOffer.variants[i].attributes
  /\ currentOffer.variants[i].attributes[last.attribute] = last.value

SelectedIs(i) == selectedVariantId = currentOffer.variants[i].id

UniformKeys ==
  \A i \in 1..Len(currentOffer.variants) :
     DOMAIN currentOffer.variants[i].attributes = DOMAIN Candidate

\* C7 as stated: when some variant's attribute map is identical to the
\* candidate set, the newly selected variant's attribute map is identical to
\* the candidate set.
C7_ExactMatchSelected ==
  (/\ VariantChangeRan /\ HadCurrent
   /\ \E i \in 1..Len(currentOffer.variants) :
         currentOffer.variants[i].attributes = Candidate)
  => \E i \in 1..Len(currentOffer.variants) :
        SelectedIs(i) /\ currentOffer.variants[i].attributes = Candidate

\* C7 as amended: when some variant carries the candidate's value for every
\* attribute of the candidate set, the newly selected variant is the first
\* such variant in list order; its attribute map is identical to the
\* candidate set when all variants expose the candidate's attribute keys.
C7_FirstAgreeingSelected ==
  (/\ VariantChangeRan /\ HadCurrent
   /\ \E i \in 1..Len(currentOffer.variants) : Agrees(i))
  => \E i \in 1..Len(currentOffer.variants) :
        /\ SelectedIs(i)
        /\ Agrees(i)
        /\ \A j \in 1..(i - 1) : ~Agrees(j)
        /\ UniformKeys => currentOffer.variants[i].attributes = Candidate

\* a request moved the selection to a variant that agrees with the candidate
\* and carries a further attribute
C7_Witness ==
  /\ VariantChangeRan /\ HadCurrent
  /\ selectedVariantId # last.prevVariantId
  /\ \E i \in 1..Len(currentOffer.variants) :
        /\ SelectedIs(i) /\ Agrees(i)
        /\ currentOffer.variants[i].attributes # Candidate

\* C8: when no variant satisfies the primary match, the newly selected variant
\* is the first variant in list order that carries the new value for the
\* changed attribute, whatever its other attributes; when some variant
\* satisfies the primary match, the selected variant satisfies it.
C8_FallbackFirstByChangedAttribute ==
  (VariantChangeRan /\ HadCurrent) =>
     /\ (/\ \A i \in 1..Len(currentOffer.variants) : ~Agrees(i)
         /\ \E i \in 1..Len(currentOffer.variants) : CarriesNewValue(i))
        => \E i \in 1..Len(currentOffer.variants) :
              /\ SelectedIs(i)
              /\ CarriesNewValue(i)
              /\ \A j \in 1..(i - 1) : ~CarriesNewValue(j)
     /\ (\E i \in 1..Len(currentOffer.variants) : Agrees(i))
        => \E i \in 1..Len(currentOffer.variants) : SelectedIs(i) /\ Agrees(i)

\* the fallback moved the selection to a variant that differs from the
\* candidate in another attribute, past an earlier variant
C8_Witness ==
  /\ VariantChangeRan /\ HadCurrent
  /\ \A i \in 1..Len(currentOffer.variants) : ~Agrees(i)
  /\ selectedVariantId # last.prevVariantId
  /\ \E i \in 2..Len(currentOffer.variants) : SelectedIs(i) /\ CarriesNewValue(i)

\* C9: when no variant carries the new value for the changed attribute the
\* selection stays on the current variant, and after a request made with a
\* current variant the selected id is the id of a variant of the offer, never
\* null.
C9_AbsoluteFallbackKeepsCurrent ==
  (VariantChangeRan /\ HadCurrent) =>
     /\ (\A i \in 1..Len(currentOffer.variants) : ~CarriesNewValue(i))
        => selectedVariantId = last.prevVariantId
     /\ selectedVariantId # NullId
     /\ \E i \in 1..Len(currentOffer.variants) : SelectedIs(i)
     /\ last.selected

\* a request for a value no variant carries, made from the second variant
C9_Witness ==
  /\ VariantChangeRan /\ HadCurrent
  /\ \A i \in 1..Len(currentOffer.variants) : ~CarriesNewValue(i)
  /\ Len(currentOffer.variants) >= 2
  /\ SelectedIs(2)

\* C10: when the current variant id matches no variant of the offer, the
\* request selects no variant and leaves the selected variant id and the
\* quantity as they were.
C10_NoCurrentVariantLeavesState ==
  (VariantChangeRan /\ ~HadCurrent) =>
     /\ ~last.selected
     /\ selectedVariantId = last.prevVariantId
     /\ quantity = last.prevQuantity

\* a request made with a quantity of 2 and an id no variant has, for a value
\* some variant carries
C10_Witness ==
  /\ VariantChangeRan /\ ~HadCurrent
  /\ last.prevQuantity = 2
  /\ last.prevVariantId # NullId
  /\ \E i \in 1..Len(currentOffer.variants) : CarriesNewValue(i)

\* C11: every variant change that selects a variant (it was made with a
\* current variant) leaves the quantity at 1, whatever the quantity was and
\* whether or not the selection moved to another variant.
C11_VariantChangeResetsQuantity ==
  /\ (VariantChangeRan /\ HadCurrent) => quantity = 1
  /\ (VariantChangeRan /\ selectedVariantId # last.prevVariantId) => quantity = 1

\* a request made with a quantity of 2 moved the selection to another variant
C11_Witness ==
  /\ VariantChangeRan /\ HadCurrent
  /\ last.prevQuantity = 2
  /\ selectedVariantId # last.prevVariantId
  /\ quantity = 1

----------------------------------------------------------------------------
(* Properties of the offer box (SpecPricing) *)

OfferInfoRan == call.fn = "ProductOfferInfo" /\ call.done

\* the nearest integer to n / d, d > 0, a half going away from zero
RoundHalfAwayFromZero(n, d) ==
  IF n >= 0 THEN (2 * n + d) \div (2 * d) ELSE 0 - ((2 * (0 - n) + d) \div (2 * d))

\* C12: the discount percent of a rendered offer box equals
\* (originalPrice - price) / originalPrice * 100 rounded to the nearest
\* integer, halves away from zero, whenever price and originalPrice are both
\* present and originalPrice > 0 (price = 0 and price > originalPrice
\* included), and 0 otherwise.
C12_DiscountRounded ==
  (OfferInfoRan /\ call.result # Null) =>
     LET cp == call.variant.pricing[call.currency]
     IN  call.result.discount =
           IF cp.price # NullPrice /\ cp.originalPrice # NullPrice /\ cp.originalPrice > 0
           THEN RoundHalfAwayFromZero((cp.originalPrice - cp.price) * 100, cp.originalPrice)
           ELSE 0

\* C13: when the variant's pricing map has no entry for the selected
\* currency the offer box produces nothing (no price, original price,
\* discount or installment text), and whatever a box shows is the pricing of
\* the selected currency, in that currency.
C13_NoPricingNothingShown ==
  OfferInfoRan =>
     /\ call.currency \notin DOMAIN call.variant.pricing => call.result = Null
     /\ call.result # Null =>
           /\ call.currency \in DOMAIN call.variant.pricing
           /\ call.result.price.amount = call.variant.pricing[call.currency].price
           /\ call.result.price.currency = call.currency
           /\ call.result.discount = discount(call.variant.pricing[call.currency])

\* a variant priced in the other currency only was rendered and shows nothing
C13_Witness ==
  /\ OfferInfoRan
  /\ call.currency \notin DOMAIN call.variant.pricing
  /\ DOMAIN call.variant.pricing # {}
  /\ call.result = Null

----------------------------------------------------------------------------
(* Properties of the normalizer (SpecNormalize) *)

NormalizeRan == call.fn = "transformProduct" /\ call.stage >= 1

\* the fixed fallback product: id 0, title 'Invalid Product', empty collections
IsFallbackProduct(p) ==
  /\ p.t = "obj"
  /\ {"id", "title", "images", "breadcrumbs", "benefits", "specs"} \subseteq DOMAIN p.fields
  /\ p.fields.id = JNum(0)
  /\ p.fields.title = JStr(<<"Invalid Product">>)
  /\ p.fields.images = JArr(<<>>)
  /\ p.fields.breadcrumbs = JObj([path |-> JArr(<<>>)])
  /\ p.fields.benefits = JArr(<<>>)
  /\ p.fields.specs = JObj([highlighted |-> JArr(<<>>), featureGroups |-> JArr(<<>>)])

\* C14: for every input that is not a non-null object (null, undefined, a
\* number, a string, a boolean, an array) the normalizer returns the fixed
\* fallback product.
C14_NonObjectGivesFallback ==
  (NormalizeRan /\ call.raw.t # "obj") => IsFallbackProduct(call.once)

\* C15: normalizing the result of a normalization gives that result again.
C15_NormalizeIdempotent ==
  (call.fn = "transformProduct" /\ call.stage = 2) => call.twice = call.once

\* the empty default of a parsed field
EmptyDefault(field) ==
  CASE field \in {"images", "benefits"} -> JArr(<<>>)
    [] field = "breadcrumbs" -> JObj([path |-> JArr(<<>>)])
    [] field = "specs" -> JObj([highlighted |-> JArr(<<>>), featureGroups |-> JArr(<<>>)])
    [] OTHER -> JObj(NoFields)

StructuredFieldNormalized ==
  NormalizeRan /\ call.field # "" /\ call.value \in StructuredValues

\* C16 as stated: for each parsed field and every structured value v, the
\* record holding v and the record holding the JSON text of v normalize to
\* the same product, and that product's field is v.
C16_StructuredKept ==
  StructuredFieldNormalized =>
     /\ call.once = transformProduct(RawRecord(call.field, JSONText(call.value)))
     /\ call.once.fields[call.field] = call.value

\* C16 as amended: the two records normalize to the same product; the field
\* of that product is v, except that images is the empty sequence when v is
\* not an array.
C16_StructuredKeptButImages ==
  StructuredFieldNormalized =>
     /\ call.once = transformProduct(RawRecord(call.field, JSONText(call.value)))
     /\ call.once.fields[call.field] =
          IF call.field = "images" /\ call.value.t # "arr" THEN JArr(<<>>)
          ELSE call.value

\* a record whose breadcrumbs is an object holding a string with a quote and
\* a backslash has been normalized
C16_Witness ==
  /\ StructuredFieldNormalized
  /\ call.field = "breadcrumbs"
  /\ call.value = JObj([path |-> JStr(<<Quote, Backslash>>)])
  /\ call.once.fields.breadcrumbs = call.value

----------------------------------------------------------------------------
(* Properties of the fetcher (SpecFetch) *)

\* the call got a response (API_BASE_URL is set and fetch resolved)
GotResponse ==
  /\ call.fn = "fetcher" /\ call.stage >= 1
  /\ call.request.configured /\ call.request.fetch = "response"

\* the response is a success whose body is the JSON text of a value
SuccessWithJson ==
  GotResponse /\ call.request.response.ok /\ call.request.response.sent # JUndefined

\* C18: when a product-detail request succeeds with the JSON body null,
\* getProduct resolves to the fixed fallback product.
C18_NullBodyGivesFallback ==
  (SuccessWithJson /\ call.stage = 2 /\ call.request.response.sent = JNull) =>
     /\ call.product.resolved
     /\ IsFallbackProduct(call.product.value)

\* C19: on a successful response the fetcher returns the value of the body's
\* data field when the body is an object with a data field, and the body
\* itself otherwise (wrapped payload, bare payload, envelope around null,
\* null or scalar body).
C19_UnwrapsDataField ==
  SuccessWithJson =>
     LET body == call.request.response.sent
     IN  /\ call.fetched.resolved
         /\ call.fetched.value =
              IF body.t = "obj" /\ "data" \in DOMAIN body.fields
              THEN body.fields.data
              ELSE body

\* C20: on a non-success status the fetcher rejects; the error carries the
\* body's message field when the body is JSON with a message field, and
\* otherwise its message contains the numeric status and the status text.
C20_ErrorMessageOfStatus ==
  (GotResponse /\ ~call.request.response.ok) =>
     LET response == call.request.response
         body == response.sent
     IN  /\ ~call.fetched.resolved
         /\ IF body.t = "obj" /\ "message" \in DOMAIN body.fields
            THEN call.fetched.error.message.server = body.fields.message
            ELSE /\ call.fetched.error.message.status = response.status
                 /\ call.fetched.error.message.statusText = response.statusText

\* a call made with API_BASE_URL unset
Unconfigured == call.fn = "fetcher" /\ ~call.request.configured

\* the outcome is the configuration error, raised without a network request
IsConfigFailure(outcome) ==
  /\ ~outcome.resolved
  /\ outcome.error.name = "Error"
  /\ outcome.error.message.text = "API_BASE_URL is not configured. Please define it in your environment or see run.md for local setup instructions."
  /\ outcome.fetches = 0

\* C21: with the base address unset, every fetch operation (the fetcher,
\* getProduct, getProducts, getQuestions) fails with the configuration error
\* and issues no network request.
C21_ConfigErrorBeforeRequest ==
  Unconfigured =>
     /\ call.stage >= 1 => IsConfigFailure(call.fetched)
     /\ call.stage >= 2 => IsConfigFailure(call.product)
     /\ call.stage >= 3 => IsConfigFailure(call.products)
     /\ call.stage >= 4 => IsConfigFailure(call.questions)

\* all four operations have failed although the backend would have answered
C21_Witness ==
  /\ Unconfigured /\ call.stage = 4
  /\ call.request.fetch = "response" /\ call.request.response.ok
  /\ IsConfigFailure(call.questions)

\* C22: every transport-level failure, whatever text the transport error
\* carries, reaches the caller as the fixed network-error message and never
\* as the transport error's own text.
C22_TransportFailureIsNetworkError ==
  (/\ call.fn = "fetcher" /\ call.stage >= 1
   /\ call.request.configured /\ call.request.fetch # "response")
  => /\ ~call.fetched.resolved
     /\ call.fetched.error.message.text =
          "Network error. Please check your internet connection and try again."
     /\ call.fetched.error.message.text # call.request.fetch

\* the payload of a successful response: the data field of an envelope, the
\* body otherwise
PayloadOf(response) ==
  IF response.sent.t = "obj" /\ "data" \in DOMAIN response.sent.fields
  THEN response.sent.fields.data
  ELSE response.sent

\* C23: getProducts turns a payload that is a sequence of N raw records, or a
\* keyed mapping with N entries, into the sequence of the N normalized
\* records in payload order, and any other payload into the empty sequence,
\* without raising an error.
C23_ListShapes ==
  (SuccessWithJson /\ call.stage >= 3) =>
     LET response == call.request.response
         payload == PayloadOf(response)
     IN  /\ call.products.resolved
         /\ IF payload.t = "arr"
            THEN call.products.value =
                   [i \in 1..Len(payload.items) |-> transformProduct(payload.items[i])]
            ELSE IF response.entries # <<>>
            THEN call.products.value =
                   [i \in 1..Len(response.entries) |->
                      transformProduct(response.entries[i][2])]
            ELSE IF payload.t = "obj"
            THEN Len(call.products.value) = Cardinality(DOMAIN payload.fields)
            ELSE call.products.value = <<>>

----------------------------------------------------------------------------
(* Claims about the question list (SpecQuestions) *)

QuestionOps == {"formSubmit", "answerSettled", "deleteQuestion"}

\* the positions of the entries of list whose id is not T
Others(list, T) == {i \in 1..Len(list) : list[i].id # T}

\* next is list without the entries of id T, the others in their order
IsWithout(next, list, T) ==
  /\ Len(next) = Cardinality(Others(list, T))
  /\ \A i \in 1..Len(next) : next[i].id # T
  /\ \A i \in Others(list, T) :
        next[i - Cardinality({j \in 1..i : list[j].id = T})] = list[i]

\* C24: on the question list, adding a question puts it in the list with a
\* null answer (or with the apology that the same handler substituted) and
\* keeps every prior entry in its order; updating the answer of id T changes
\* only the answer of the entries of id T; deleting id T removes exactly the
\* entries of id T and keeps the others in their order; and none of the
\* three issues a fetch or changes the stored product, offer, selected
\* variant or quantity.
C24_QuestionOperationsFrame ==
  [][LET T == last'.id
         before == currentQuestions
         after == currentQuestions'
     IN  /\ last'.op = "formSubmit" =>
               /\ Len(after) = Len(before) + 1
               /\ Tail(after) = before
               /\ after[1].id = T
               /\ after[1].answer \in {JNull, ApologyText}
               /\ after[1].answer = JNull <=> questionForm'.isAsking
         /\ last'.op = "answerSettled" =>
               /\ Len(after) = Len(before)
               /\ \A i \in 1..Len(before) :
                     IF before[i].id = T
                     THEN after[i] = [before[i] EXCEPT !.answer = last'.answer]
                     ELSE after[i] = before[i]
         /\ last'.op = "deleteQuestion" => IsWithout(after, before, T)
         /\ last'.op \in QuestionOps =>
               UNCHANGED <<currentProduct, currentOffer, currentReviews,
                           currentPaymentMethods, currentSeller, selectedVariantId,
                           quantity, currency, loading, error, batches, issued,
                           currentProductId, products>>]_vars

\* an older question was deleted from under a newer one, backend entries below
C24_Witness ==
  /\ last.op = "deleteQuestion"
  /\ Len(last.prevQuestions) = 4
  /\ last.prevQuestions[2].id = last.id
  /\ Len(currentQuestions) = 3

InList(T) == \E i \in 1..Len(currentQuestions) : currentQuestions[i].id = T
PendingIn(T) ==
  \E i \in 1..Len(currentQuestions) :
     currentQuestions[i].id = T /\ currentQuestions[i].answer = JNull
AnsweredIn(T) ==
  \E i \in 1..Len(currentQuestions) :
     /\ currentQuestions[i].id = T
     /\ currentQuestions[i].answer \in AnswerTexts \cup {ApologyText}
Displayed(p) == currentProduct # Null /\ idOf(currentProduct) = p

\* a submitted question is in the list at once, pending, under its temporary id
AppearsPending ==
  last.op = "formSubmit" =>
     /\ currentQuestions # <<>>
     /\ currentQuestions[1].id = last.id
     /\ currentQuestions[1].answer = JNull

\* while its product stays displayed, a question leaves the list only by deletion
LeavesByDeletion ==
  \A T \in TempIds, p \in 1..MaxProductId :
     (InList(T) /\ Displayed(p) /\ ~InList(T)' /\ Displayed(p)') =>
        (last'.op = "deleteQuestion" /\ last'.id = T)

\* a pending question is answered, by the service or with the apology,
\* unless it is deleted or its product is no longer the one displayed
AnsweredInTheEnd ==
  \A T \in TempIds, p \in 1..MaxProductId :
     (PendingIn(T) /\ Displayed(p)) ~> (AnsweredIn(T) \/ ~InList(T) \/ ~Displayed(p))

\* C25: every question the user submits appears at once in the list with a
\* null answer and its temporary id and, while the same product stays
\* displayed and the question is not deleted, it eventually has an answer
\* under that id: the text of the service or the apology.
C25_AskedThenAnswered ==
  /\ []AppearsPending
  /\ [][LeavesByDeletion]_vars
  /\ AnsweredInTheEnd

\* the answer that settled last was for an id the list no longer held
AnswerForMissing ==
  /\ last.op = "answerSettled"
  /\ \A i \in 1..Len(last.prevQuestions) : last.prevQuestions[i].id # last.id

\* C29: an answer (or the apology) that arrives for a question id no longer
\* in the list, the question deleted or the list replaced, leaves the list
\* as it was: the question does not reappear and no entry is altered.
C29_LateAnswerChangesNothing ==
  AnswerForMissing => currentQuestions = last.prevQuestions

\* the late answer found the list of another product with a newer question
\* of the user still pending in it
C29_Witness ==
  /\ AnswerForMissing
  /\ \E i \in 1..Len(currentQuestions) :
        currentQuestions[i].isUserGenerated /\ currentQuestions[i].answer = JNull
  /\ \E i \in 1..Len(currentQuestions) : ~currentQuestions[i].isUserGenerated

----------------------------------------------------------------------------
(* Claims about the loading flag, the selected variant and the quantity (Spec) *)

\* C26: whenever a detail batch for the currently selected product id is in
\* flight the loading flag is true; the completion of an older batch never
\* clears it while the newer batch is pending.
C26_LoadingWhileBatchPending ==
  (\E i \in 1..Len(batches) : batches[i].id = currentProductId) => loading

\* C27: in every state with a stored offer and no error, the selected variant
\* id is the id of a variant of the stored offer, or unset when the offer has
\* no variants; it is never an id left over from an earlier offer.
C27_SelectedVariantOfStoredOffer ==
  (currentOffer # Null /\ error = Null) =>
     IF Len(currentOffer.variants) > 0
     THEN \E i \in 1..Len(currentOffer.variants) :
             currentOffer.variants[i].id = selectedVariantId
     ELSE selectedVariantId = NullId

\* C28: in every state where the page is rendered and the selected variant
\* has stock, the quantity is at least 1, at most the stock of the selected
\* variant and at most 6, the most the selector offers.
C28_QuantityWithinStock ==
  (PageRendered /\ selectedVariant.stock > 0) =>
     /\ 1 <= quantity
     /\ quantity <= selectedVariant.stock
     /\ quantity <= 6

\* the largest quantity the selector offers was chosen for a variant with
\* more stock than that
C28_Witness ==
  /\ PageRendered
  /\ last.op = "quantitySelect"
  /\ selectedVariant.stock > 6
  /\ quantity = 6

\* the page is rendered and no batch has the loading flag up
Ready == PageRendered /\ ~loading

\* C30: in every Ready state the currency toggle and the variant selectors
\* are on the page, whatever the selected currency and whatever currencies
\* the selected variant is priced in, and a currency change leaves the
\* selected variant and the quantity as they were.
C30_CurrencyAndVariantStayAvailable ==
  /\ [](Ready => OfferInfoRendered)
  /\ [][last'.op = "setCurrency" => UNCHANGED <<selectedVariantId, quantity>>]_vars

====
